---- MODULE Spec2Model ----
(***************************************************************************)
(* MoleView: the periodic-table lookups and the bond inference of          *)
(* moleview/src/atom.py, the drawing driver of moleview/src/draw.py and    *)
(* the XYZ parse loop of moleview/src/moleview.py.                         *)
(*                                                                         *)
(* Python lists are sequences; the Python index k is position k + 1.       *)
(* Coordinates are integer triples and every cutoff is an integer, in one  *)
(* length unit (the docstring example is in millionths of an Angstrom).    *)
(* A distance is carried as its square, so  dist <= cutoff  is decided by  *)
(* cutoff >= 0 /\ dist^2 <= cutoff^2.  A square does not fit the 32-bit    *)
(* integers of the checker at that unit, so squares are two-digit numbers  *)
(* in base 10^6: [hi, lo] stands for hi * 10^6 + lo with 0 <= lo < 10^6.   *)
(* The float64 comparison of the code agrees with the exact one whenever   *)
(* the distance is not within rounding error of the cutoff.                *)
(***************************************************************************)
EXTENDS Integers, Sequences, FiniteSets, TLC

\* ---------------------------------------------------------------- bounds
MaxAtoms == 3      \* longest symbol / coordinate list drawn as input
MaxCutoff == 2     \* cutoffs are drawn from 1 .. MaxCutoff
MaxNumber == 112   \* check_atom is asked for -MaxNumber .. MaxNumber
MaxCalls == 3      \* method calls made on one DrawComplex besides add_atom
MaxLines == 3      \* longest file body, and largest atom count of a header

\* ------------------------------------------------------- Python values
PyInt(n) == [kind |-> "int", n |-> n, s |-> ""]
PyStr(s) == [kind |-> "str", n |-> 0, s |-> s]
PyNone == [kind |-> "None", n |-> 0, s |-> ""]
PyRaise(e) == [kind |-> e, n |-> 0, s |-> ""]

\* list.__getitem__ with an int: negative indices count from the end.
list_getitem(l, k) ==
  IF k >= 0 /\ k < Len(l) THEN PyStr(l[k + 1])
  ELSE IF k < 0 /\ k >= 0 - Len(l) THEN PyStr(l[k + Len(l) + 1])
  ELSE PyRaise("IndexError")

\* list.index: the first position holding the value.
list_index(l, v) == (CHOOSE k \in 1..Len(l) : l[k] = v /\ \A m \in 1..(k - 1) : l[m] # v) - 1

\* ---------------------------------------------------------- atom.py
\* check_atom: the list atoms; Python index x is position x + 1 here.
atoms ==
  << "0", "H", "He", "Li", "Be", "B", "C", "N", "O", "F", "Ne", "Na", "Mg",
     "Al", "Si", "P", "S", "Cl", "Ar", "K", "Ca", "Sc", "Ti", "V", "Cr",
     "Mn", "Fe", "Co", "Ni", "Cu", "Zn", "Ga", "Ge", "As", "Se", "Br", "Kr",
     "Rb", "Sr", "Y", "Zr", "Nb", "Mo", "Tc", "Ru", "Rh", "Pd", "Ag", "Cd",
     "In", "Sn", "Sb", "Te", "I", "Xe", "Cs", "Ba", "La", "Ce", "Pr", "Nd",
     "Pm", "Sm", "Eu", "Gd", "Tb", "Dy", "Ho", "Er", "Tm", "Yb", "Lu", "Hf",
     "Ta", "W", "Re", "Os", "Ir", "Pt", "Au", "Hg", "Tl", "Pb", "Bi", "Po",
     "At", "Rn", "Fr", "Ra", "Ac", "Th", "Pa", "U", "Np", "Pu", "Am", "Cm",
     "Bk", "Cf", "Es", "Fm", "Md", "No", "Lr", "Rf", "Db", "Sg", "Bh", "Hs",
     "Mt" >>

\* check_radii: the table before the division by 1000.0 (milli-Angstrom).
atom_radii ==
  << 0, 230, 930, 680, 350, 830, 680, 680, 680, 640, 1120, 970, 1100, 1350,
     1200, 750, 1020, 990, 1570, 1330, 990, 1440, 1470, 1330, 1350, 1350,
     1340, 1330, 1500, 1520, 1450, 1220, 1170, 1210, 1220, 1210, 1910, 1470,
     1120, 1780, 1560, 1480, 1470, 1350, 1400, 1450, 1500, 1590, 1690, 1630,
     1460, 1460, 1470, 1400, 1980, 1670, 1340, 1870, 1830, 1820, 1810, 1800,
     1800, 1990, 1790, 1760, 1750, 1740, 1730, 1720, 1940, 1720, 1570, 1430,
     1370, 1350, 1370, 1320, 1500, 1500, 1700, 1550, 1540, 1540, 1680, 1700,
     2400, 2000, 1900, 1880, 1790, 1610, 1580, 1550, 1530, 1510, 1500, 1500,
     1500, 1500, 1500, 1500, 1500, 1500, 1600, 1600, 1600, 1600, 1600, 1600,
     1600, 1600, 1600, 1600, 1600, 1600, 1600, 1600, 1600, 1600 >>

\* check_color: the list atom_color; index 0 holds the placeholder "0".
atom_color ==
  << "0", "#FFFFFF", "#D9FFFF", "#CC80FF", "#C2FF00", "#FFB5B5", "#909090",
     "#3050F8", "#FF0D0D", "#90E050", "#B3E3F5", "#AB5CF2", "#8AFF00",
     "#BFA6A6", "#F0C8A0", "#FF8000", "#FFFF30", "#1FF01F", "#80D1E3",
     "#8F40D4", "#3DFF00", "#E6E6E6", "#BFC2C7", "#A6A6AB", "#8A99C7",
     "#9C7AC7", "#E06633", "#F090A0", "#50D050", "#C88033", "#7D80B0",
     "#C28F8F", "#668F8F", "#BD80E3", "#FFA100", "#A62929", "#5CB8D1",
     "#702EB0", "#00FF00", "#94FFFF", "#94E0E0", "#73C2C9", "#54B5B5",
     "#3B9E9E", "#248F8F", "#0A7D8C", "#006985", "#C0C0C0", "#FFD98F",
     "#A67573", "#668080", "#9E63B5", "#D47A00", "#940094", "#429EB0",
     "#57178F", "#00C900", "#70D4FF", "#FFFFC7", "#D9FFC7", "#C7FFC7",
     "#A3FFC7", "#8FFFC7", "#61FFC7", "#45FFC7", "#30FFC7", "#1FFFC7",
     "#00FF9C", "#00E675", "#00D452", "#00BF38", "#00AB24", "#4DC2FF",
     "#4DA6FF", "#2194D6", "#267DAB", "#266696", "#175487", "#D0D0E0",
     "#FFD123", "#B8B8D0", "#A6544D", "#575961", "#9E4FB5", "#AB5C00",
     "#754F45", "#428296", "#420066", "#007D00", "#70ABFA", "#00BAFF",
     "#00A1FF", "#008FFF", "#0080FF", "#006BFF", "#545CF2", "#785CE3",
     "#8A4FE3", "#A136D4", "#B31FD4", "#B31FBA", "#B30DA6", "#BD0D87",
     "#C70066", "#CC0059", "#D1004F", "#D90045", "#E00038", "#E6002E",
     "#EB0026" >>

\* check_atom(x): an int indexes the list; anything else is searched for and
\* the function falls off its end (returns None) when nothing matches.
check_atom(x) ==
  IF x.kind = "int" THEN list_getitem(atoms, x.n)
  ELSE IF \E k \in 1..Len(atoms) : atoms[k] = x.s
       THEN PyInt(list_index(atoms, x.s))
       ELSE PyNone

\* check_color(x): atom_color[x]; a list index that is not an int raises.
check_color(x) ==
  IF x.kind = "int" THEN list_getitem(atom_color, x.n) ELSE PyRaise("TypeError")

\* check_radii(x) for an int x: the numpy array element, in milli-Angstrom.
check_radii(x) ==
  IF x.n >= 0 /\ x.n < Len(atom_radii) THEN PyInt(atom_radii[x.n + 1])
  ELSE IF x.n < 0 /\ x.n >= 0 - Len(atom_radii) THEN PyInt(atom_radii[x.n + Len(atom_radii) + 1])
  ELSE PyRaise("IndexError")

\* d * d as a base-10^6 number, for |d| < 46 * 10^6.
wide_sq(d) ==
  LET n == IF d < 0 THEN 0 - d ELSE d
      a == n \div 1000
      b == n % 1000
      t == 2 * a * b
      lo == (t % 1000) * 1000 + b * b
  IN  [hi |-> a * a + (t \div 1000) + (lo \div 1000000), lo |-> lo % 1000000]
wide_add(x, y) ==
  [hi |-> x.hi + y.hi + ((x.lo + y.lo) \div 1000000), lo |-> (x.lo + y.lo) % 1000000]
wide_lt(x, y) == x.hi < y.hi \/ (x.hi = y.hi /\ x.lo < y.lo)
wide_le(x, y) == x.hi < y.hi \/ (x.hi = y.hi /\ x.lo <= y.lo)

\* Variant: the distance in the x-y plane only.
euclidean2_flat(u, v) == wide_add(wide_sq(u[1] - v[1]), wide_sq(u[2] - v[2]))

\* distance.euclidean(u, v), squared.
euclidean2(u, v) ==
  wide_add(wide_add(wide_sq(u[1] - v[1]), wide_sq(u[2] - v[2])), wide_sq(u[3] - v[3]))

\* Variant: the cutoff as an exclusive bound.
dist_lt(dist2, cutoff) == cutoff >= 0 /\ wide_lt(dist2, wide_sq(cutoff))

\* dist <= cutoff on a squared distance.
dist_le(dist2, cutoff) == cutoff >= 0 /\ wide_le(dist2, wide_sq(cutoff))

\* Variant: new candidates are put at the front of the lists.
RECURSIVE all_pairs_front(_, _, _, _, _)
all_pairs_front(atom_, coord_, i, j, acc) ==
  IF i >= Len(coord_) THEN acc
  ELSE IF j >= Len(coord_) THEN all_pairs_front(atom_, coord_, i + 1, i + 2, acc)
  ELSE IF i >= Len(atom_) \/ j >= Len(atom_) THEN [acc EXCEPT !.raised = "IndexError"]
  ELSE all_pairs_front(atom_, coord_, i, j + 1,
         [raised |-> "none",
          all_pair |-> <<(<<atom_[i + 1], atom_[j + 1]>>)>> \o acc.all_pair,
          all_bond |-> <<[a |-> coord_[i + 1], b |-> coord_[j + 1],
                          dist2 |-> euclidean2(coord_[i + 1], coord_[j + 1]),
                          ij |-> <<i, j>>]>> \o acc.all_bond])

\* Variant: the inner loop runs over every j, not only j > i.
RECURSIVE all_pairs_square(_, _, _, _, _)
all_pairs_square(atom_, coord_, i, j, acc) ==
  IF i >= Len(coord_) THEN acc
  ELSE IF j >= Len(coord_) THEN all_pairs_square(atom_, coord_, i + 1, 0, acc)
  ELSE IF i >= Len(atom_) \/ j >= Len(atom_) THEN [acc EXCEPT !.raised = "IndexError"]
  ELSE all_pairs_square(atom_, coord_, i, j + 1,
         [raised |-> "none",
          all_pair |-> Append(acc.all_pair, <<atom_[i + 1], atom_[j + 1]>>),
          all_bond |-> Append(acc.all_bond,
                         [a |-> coord_[i + 1], b |-> coord_[j + 1],
                          dist2 |-> euclidean2(coord_[i + 1], coord_[j + 1]),
                          ij |-> <<i, j>>])])

\* find_bonds, first loop nest: every pair i < j < len(coord) in generation
\* order.  The distance is computed before atom[i], atom[j] are read, and a
\* read past the end of atom raises IndexError.  The field ij of an all_bond
\* entry is auxiliary: it records the loop variables of the append.
RECURSIVE all_pairs(_, _, _, _, _)
all_pairs(atom_, coord_, i, j, acc) ==
  IF i >= Len(coord_) THEN acc
  ELSE IF j >= Len(coord_) THEN all_pairs(atom_, coord_, i + 1, i + 2, acc)
  ELSE IF i >= Len(atom_) \/ j >= Len(atom_) THEN [acc EXCEPT !.raised = "IndexError"]
  ELSE all_pairs(atom_, coord_, i, j + 1,
         [raised |-> "none",
          all_pair |-> Append(acc.all_pair, <<atom_[i + 1], atom_[j + 1]>>),
          all_bond |-> Append(acc.all_bond,
                         [a |-> coord_[i + 1], b |-> coord_[j + 1],
                          dist2 |-> euclidean2(coord_[i + 1], coord_[j + 1]),
                          ij |-> <<i, j>>])])

\* Variant: the comparison with the global cutoff is turned around.
RECURSIVE filter_1_above(_, _, _, _, _)
filter_1_above(all_pair, all_bond, cutoff, i, acc) ==
  IF i > Len(all_bond) THEN acc
  ELSE IF ~ dist_lt(all_bond[i].dist2, cutoff)
       THEN filter_1_above(all_pair, all_bond, cutoff, i + 1,
              [pair |-> Append(acc.pair, all_pair[i]), bond |-> Append(acc.bond, all_bond[i])])
       ELSE filter_1_above(all_pair, all_bond, cutoff, i + 1, acc)

\* Second loop: screen on the global cutoff.
RECURSIVE filter_1(_, _, _, _, _)
filter_1(all_pair, all_bond, cutoff, i, acc) ==
  IF i > Len(all_bond) THEN acc
  ELSE IF dist_le(all_bond[i].dist2, cutoff)
       THEN filter_1(all_pair, all_bond, cutoff, i + 1,
              [pair |-> Append(acc.pair, all_pair[i]), bond |-> Append(acc.bond, all_bond[i])])
       ELSE filter_1(all_pair, all_bond, cutoff, i + 1, acc)

\* Variant: the symbol test ignores case, so "h" counts as hydrogen.
RECURSIVE filter_2_anycase(_, _, _, _, _)
filter_2_anycase(pair_1, bond_1, cutoff, i, acc) ==
  IF i > Len(bond_1) THEN acc
  ELSE IF pair_1[i][1] \in {"H", "h"} \/ pair_1[i][2] \in {"H", "h"}
       THEN IF dist_le(bond_1[i].dist2, cutoff)
            THEN filter_2_anycase(pair_1, bond_1, cutoff, i + 1,
                   [pair |-> Append(acc.pair, pair_1[i]),
                    bond |-> Append(acc.bond, [a |-> bond_1[i].a, b |-> bond_1[i].b, ij |-> bond_1[i].ij])])
            ELSE filter_2_anycase(pair_1, bond_1, cutoff, i + 1, acc)
       ELSE filter_2_anycase(pair_1, bond_1, cutoff, i + 1,
              [pair |-> Append(acc.pair, pair_1[i]),
               bond |-> Append(acc.bond, [a |-> bond_1[i].a, b |-> bond_1[i].b, ij |-> bond_1[i].ij])])

\* Variant: only the first symbol of a pair is tested for "H".
RECURSIVE filter_2_first(_, _, _, _, _)
filter_2_first(pair_1, bond_1, cutoff, i, acc) ==
  IF i > Len(bond_1) THEN acc
  ELSE IF pair_1[i][1] = "H"
       THEN IF dist_le(bond_1[i].dist2, cutoff)
            THEN filter_2_first(pair_1, bond_1, cutoff, i + 1,
                   [pair |-> Append(acc.pair, pair_1[i]),
                    bond |-> Append(acc.bond, [a |-> bond_1[i].a, b |-> bond_1[i].b, ij |-> bond_1[i].ij])])
            ELSE filter_2_first(pair_1, bond_1, cutoff, i + 1, acc)
       ELSE filter_2_first(pair_1, bond_1, cutoff, i + 1,
              [pair |-> Append(acc.pair, pair_1[i]),
               bond |-> Append(acc.bond, [a |-> bond_1[i].a, b |-> bond_1[i].b, ij |-> bond_1[i].ij])])

\* Third loop: screen the pairs holding the symbol "H" on the hydrogen cutoff.
RECURSIVE filter_2(_, _, _, _, _)
filter_2(pair_1, bond_1, cutoff, i, acc) ==
  IF i > Len(bond_1) THEN acc
  ELSE IF pair_1[i][1] = "H" \/ pair_1[i][2] = "H"
       THEN IF dist_le(bond_1[i].dist2, cutoff)
            THEN filter_2(pair_1, bond_1, cutoff, i + 1,
                   [pair |-> Append(acc.pair, pair_1[i]),
                    bond |-> Append(acc.bond, [a |-> bond_1[i].a, b |-> bond_1[i].b, ij |-> bond_1[i].ij])])
            ELSE filter_2(pair_1, bond_1, cutoff, i + 1, acc)
       ELSE filter_2(pair_1, bond_1, cutoff, i + 1,
              [pair |-> Append(acc.pair, pair_1[i]),
               bond |-> Append(acc.bond, [a |-> bond_1[i].a, b |-> bond_1[i].b, ij |-> bond_1[i].ij])])

\* find_bonds(atom, coord, cutoff_global, cutoff_hydrogen): what the call
\* returns (filtered_pair_2, filtered_bond_2), or the exception it raises.
find_bonds(atom_, coord_, cutoff_global_, cutoff_hydrogen_) ==
  LET all == all_pairs(atom_, coord_, 0, 1, [raised |-> "none", all_pair |-> <<>>, all_bond |-> <<>>])
      f1 == filter_1(all.all_pair, all.all_bond, cutoff_global_, 1, [pair |-> <<>>, bond |-> <<>>])
      f2 == filter_2(f1.pair, f1.bond, cutoff_hydrogen_, 1, [pair |-> <<>>, bond |-> <<>>])
  IN  IF all.raised # "none"
      THEN [raised |-> all.raised, pair |-> <<>>, bond |-> <<>>]
      ELSE [raised |-> "none", pair |-> f2.pair, bond |-> f2.bond]

\* ---------------------------------------------------------- draw.py
\* DrawComplex.add_atom: one scatter per coordinate.  The arguments are
\* evaluated left to right, so check_color(n) runs before check_radii(n); an
\* exception leaves the loop.  color_q and radii_q log the arguments given to
\* check_color and check_radii.  The marker size s is kept in thousandths.
RECURSIVE add_atom_loop(_, _, _, _)
add_atom_loop(atom_, coord_, i, acc) ==
  IF i >= Len(coord_) THEN acc
  ELSE IF i >= Len(atom_) THEN [acc EXCEPT !.raised = "IndexError"]
  ELSE LET n == check_atom(PyStr(atom_[i + 1]))
           c == check_color(n)
           r == check_radii(n)
       IN  IF c.kind # "str"
           THEN [acc EXCEPT !.color_q = Append(@, n), !.raised = c.kind]
           ELSE add_atom_loop(atom_, coord_, i + 1,
                  [ax |-> Append(acc.ax, [xyz |-> coord_[i + 1], color |-> c.s,
                                          label |-> atom_[i + 1], s |-> r.n * 300]),
                   color_q |-> Append(acc.color_q, n),
                   radii_q |-> Append(acc.radii_q, n),
                   raised |-> "none"])

\* add_symbol: one text per symbol, 0.1 Angstrom off the atom (coordinates
\* of a drawn complex are in millionths); a missing coordinate raises.
RECURSIVE add_symbol_loop(_, _, _, _)
add_symbol_loop(atom_, coord_, j, acc) ==
  IF j >= Len(atom_) THEN acc
  ELSE IF j >= Len(coord_) THEN [acc EXCEPT !.raised = "IndexError"]
  ELSE add_symbol_loop(atom_, coord_, j + 1,
         [texts |-> Append(acc.texts,
                      [xyz |-> <<coord_[j + 1][1] + 100000, coord_[j + 1][2] + 100000,
                                 coord_[j + 1][3] + 100000>>,
                       label |-> <<atom_[j + 1], j>>]),
          raised |-> "none"])

\* add_bond, line 148: x, y, z = zip(*get_atoms) for get_atoms = [a, b].
zip_star(get_atoms) ==
  <<(<<get_atoms[1][1], get_atoms[2][1]>>), (<<get_atoms[1][2], get_atoms[2][2]>>),
    (<<get_atoms[1][3], get_atoms[2][3]>>)>>

\* add_bond, line 149: list(zip(x, y, z)).
zip_xyz(xyz) ==
  <<(<<xyz[1][1], xyz[2][1], xyz[3][1]>>), (<<xyz[1][2], xyz[2][2], xyz[3][2]>>)>>

\* Variant: the list of pairs is started afresh on every call.
RECURSIVE add_bond_pairs_fresh(_, _, _)
add_bond_pairs_fresh(bonds, i, acc) ==
  IF i > Len(bonds) THEN acc
  ELSE IF i = 1
       THEN add_bond_pairs_fresh(bonds, i + 1, <<zip_xyz(zip_star(<<bonds[i].a, bonds[i].b>>))>>)
       ELSE add_bond_pairs_fresh(bonds, i + 1,
              Append(acc, zip_xyz(zip_star(<<bonds[i].a, bonds[i].b>>))))

\* add_bond, first loop: one entry of atoms_pair per entry of bond_list.
RECURSIVE add_bond_pairs(_, _, _)
add_bond_pairs(bonds, i, acc) ==
  IF i > Len(bonds) THEN acc
  ELSE add_bond_pairs(bonds, i + 1,
         Append(acc, zip_xyz(zip_star(<<bonds[i].a, bonds[i].b>>))))

\* add_bond, second loop: one plotted segment per entry of atoms_pair.
RECURSIVE add_bond_plot(_, _, _)
add_bond_plot(pairs, i, acc) ==
  IF i > Len(pairs) THEN acc
  ELSE LET merge == zip_star(pairs[i])
       IN  add_bond_plot(pairs, i + 1, Append(acc, [x |-> merge[1], y |-> merge[2], z |-> merge[3]]))

\* add_legend: the labels of the scatter artists, each kept once.
RECURSIVE legend_labels(_, _, _)
legend_labels(artists, i, label_list) ==
  IF i > Len(artists) THEN label_list
  ELSE IF \E k \in 1..Len(label_list) : label_list[k] = artists[i].label
       THEN legend_labels(artists, i + 1, label_list)
       ELSE legend_labels(artists, i + 1, Append(label_list, artists[i].label))

\* config_plot(show_title, show_axis, show_grid, **kwargs) on the settings.
config_plot_result(cfg, a) ==
  LET t1 == IF a.title_name.kind # "None" THEN a.title_name.s ELSE cfg.title
      t2 == IF a.title_size.kind # "None"
            THEN (IF a.title_name.kind # "None" THEN a.title_name.s ELSE cfg.title_name)
            ELSE t1
  IN  [title_name |-> cfg.title_name,
       title_size |-> a.title_size,
       label_size |-> a.label_size,
       show_title |-> a.show_title,
       show_axis |-> a.show_axis,
       show_grid |-> a.show_grid,
       title |-> IF a.show_title THEN t2 ELSE "",
       axis_labels |-> cfg.axis_labels \/ a.label_size.kind # "None",
       axis_off |-> cfg.axis_off \/ ~ a.show_axis,
       grid_off |-> cfg.grid_off \/ ~ a.show_grid]

\* ------------------------------------------------------- moleview.py
\* A line of the file is a sequence of one-character strings.
DigitChars == <<"0", "1", "2", "3", "4", "5", "6", "7", "8", "9">>
Digits == {DigitChars[k] : k \in 1..10}
\* \w, \s and the class [0-9\-\+\.*^eEdD] of coord_patt, over the characters
\* the sample lines use.
WordChars == Digits \cup {"H", "F", "C", "O", "N", "e", "E", "d", "D", "x", "_"}
SpaceChars == {" "}
NumChars == Digits \cup {"-", "+", ".", "*", "^", "e", "E", "d", "D"}

\* The first position at or after s whose character is not in class.
RECURSIVE run_end(_, _, _)
run_end(line, s, class) ==
  IF s > Len(line) \/ line[s] \notin class THEN s ELSE run_end(line, s + 1, class)

\* coord_patt matched at position s.  Each group is followed by a character
\* outside its class, so only the longest run of every + can match.
match_at(line, s) ==
  LET e1 == run_end(line, s, WordChars)
      w1 == run_end(line, e1, SpaceChars)
      e2 == run_end(line, w1, NumChars)
      w2 == run_end(line, e2, SpaceChars)
      e3 == run_end(line, w2, NumChars)
      w3 == run_end(line, e3, SpaceChars)
      e4 == run_end(line, w3, NumChars)
  IN  [ok |-> e1 > s /\ w1 > e1 /\ e2 > w1 /\ w2 > e2 /\ e3 > w2 /\ w3 > e3 /\ e4 > w3,
       groups |-> <<SubSeq(line, s, e1 - 1), SubSeq(line, w1, e2 - 1),
                    SubSeq(line, w2, e3 - 1), SubSeq(line, w3, e4 - 1)>>]

\* coord_patt.search(line): the match at the leftmost position that has one.
search(line) ==
  IF \E s \in 1..Len(line) : match_at(line, s).ok
  THEN match_at(line, CHOOSE s \in 1..Len(line) :
                        match_at(line, s).ok /\ \A t \in 1..(s - 1) : ~ match_at(line, t).ok)
  ELSE [ok |-> FALSE, groups |-> <<>>]

\* val.lower().replace("d", "e") on the characters of the class.
lower_d_to_e(val) ==
  [k \in 1..Len(val) |-> IF val[k] \in {"E", "d", "D"} THEN "e" ELSE val[k]]

\* .replace("*^", "e"), left to right.
RECURSIVE replace_star_caret(_)
replace_star_caret(val) ==
  IF Len(val) < 2 THEN val
  ELSE IF val[1] = "*" /\ val[2] = "^"
       THEN <<"e">> \o replace_star_caret(SubSeq(val, 3, Len(val)))
       ELSE <<val[1]>> \o replace_star_caret(Tail(val))

\* The int a run of digits spells, continuing from acc.
RECURSIVE digits_value(_, _, _, _)
digits_value(val, from, to, acc) ==
  IF from >= to THEN acc
  ELSE digits_value(val, from + 1, to,
         acc * 10 + ((CHOOSE n \in 1..10 : DigitChars[n] = val[from]) - 1))

\* m * 10^e without trailing zeros in m.
RECURSIVE decimal(_, _)
decimal(m, e) ==
  IF m = 0 THEN [m |-> 0, e |-> 0]
  ELSE IF m % 10 = 0 THEN decimal(m \div 10, e + 1)
  ELSE [m |-> m, e |-> e]

\* float(val) for a string of digits, signs, ".", "e", "*" and "^":
\* [sign] digits [. digits] [e [sign] digits] with a digit before the
\* exponent; anything else is a ValueError.  The value is kept as the
\* decimal m * 10^e.
py_float(val) ==
  LET neg == Len(val) >= 1 /\ val[1] = "-"
      p0 == IF Len(val) >= 1 /\ val[1] \in {"-", "+"} THEN 2 ELSE 1
      p1 == run_end(val, p0, Digits)
      dot == p1 <= Len(val) /\ val[p1] = "."
      f0 == IF dot THEN p1 + 1 ELSE p1
      p2 == run_end(val, f0, Digits)
      exp == p2 <= Len(val) /\ val[p2] = "e"
      xneg == exp /\ p2 + 1 <= Len(val) /\ val[p2 + 1] = "-"
      x0 == IF exp /\ p2 + 1 <= Len(val) /\ val[p2 + 1] \in {"-", "+"} THEN p2 + 2 ELSE p2 + 1
      x1 == IF exp THEN run_end(val, x0, Digits) ELSE p2
      ok == /\ (p1 > p0 \/ p2 > f0)
            /\ (exp => x1 > x0)
            /\ x1 = Len(val) + 1
      mant == digits_value(val, f0, p2, digits_value(val, p0, p1, 0))
      x == IF exp THEN digits_value(val, x0, x1, 0) ELSE 0
  IN  IF ok
      THEN [ok |-> TRUE,
            v |-> decimal(IF neg THEN 0 - mant ELSE mant, (IF xneg THEN 0 - x ELSE x) - (p2 - f0))]
      ELSE [ok |-> FALSE, v |-> [m |-> 0, e |-> 0]]

\* ------------------------------------------------------------- inputs
\* "h" stands for every symbol that is not the literal "H".
Symbols == {"H", "h"}
DrawSymbols == {"H", "C", "0", "Xx"}
\* Three positions at the distances 1, 2 and sqrt(5) of each other.
Points == {<<0, 0, 0>>, <<0, 0, 1>>, <<0, 2, 1>>}
Cutoffs == 1..MaxCutoff
LookupStrings == {atoms[k] : k \in 1..Len(atoms)} \cup {"h", "Xx", ""}

\* Atom lines a file may hold: plain, with Fortran exponents, empty, one
\* number short, with a symbol after a hyphen, with a token that is no
\* number, and with a trailing letter.
SampleLines ==
  {<<"H", " ", "1", ".", "5", " ", "-", "2", " ", "0">>,
   <<"F", "e", " ", "1", "d", "1", " ", "2", "*", "^", "1", " ", "3", "E", "0">>,
   <<>>,
   <<"C", " ", "1", " ", "2">>,
   <<"C", "-", "1", " ", "1", " ", "2", " ", "3">>,
   <<"H", " ", "1", " ", "2", " ", "1", ".", "2", ".", "3">>,
   <<"O", " ", "0", " ", ".", "5", " ", "3", "x">>}

SeqsUpTo(S, n) == UNION {[1..k -> S] : k \in 0..n}
IndexPermutations(n) == {p \in [1..n -> 1..n] : \A a, b \in 1..n : p[a] = p[b] => a = b}
\* The list l relabelled by p: entry k of l becomes entry p[k].
Relabelled(l, p) == [m \in 1..Len(l) |-> l[CHOOSE k \in 1..Len(l) : p[k] = m]]

\* -------------------------------------------------------------- state
VARIABLES
  atom, coord, cutoff_global, cutoff_hydrogen,  \* DrawComplex fields / find_bonds arguments
  pc,       \* position of the caller
  ret,      \* the outcome of find_bonds on the fields
  alt,      \* the outcome of a further find_bonds call on varied arguments
  ax,       \* the scatter artists add_atom has drawn
  color_q,  \* arguments add_atom gave to check_color
  radii_q,  \* arguments add_atom gave to check_radii
  raised,   \* exception that left add_atom, or "none"
  looked,   \* the last direct check_atom call and its outcome
  bond_list,   \* DrawComplex.bond_list: None, or the list add_bond stored
  atoms_pair,  \* DrawComplex.atoms_pair
  plotted,     \* the line segments add_bond has plotted on the axes
  segments,    \* how many segments the latest add_bond call plotted
  calls,       \* how many add_bond calls have completed
  texts,       \* the text artists add_symbol has drawn
  legend,      \* the labels of the legend, None before add_legend
  config,      \* title and display settings of the object and its axes
  ncalls,      \* how many method calls count against MaxCalls
  lines,         \* main: lines[2:], the lines after the count and the title
  num_atoms,     \* main: int(lines[0])
  line_i,        \* main: the loop variable i
  xyz_atoms,     \* main: the list atoms
  xyz_coords,    \* main: the list coords
  parse_raised   \* exception that left the loop, or "none"

sceneVars == <<bond_list, atoms_pair, plotted, segments, calls, texts, legend, config, ncalls>>

parseVars == <<lines, num_atoms, line_i, xyz_atoms, xyz_coords, parse_raised>>

vars == <<atom, coord, cutoff_global, cutoff_hydrogen, pc, ret, alt, ax, color_q, radii_q, raised, looked,
          sceneVars, parseVars>>

NoReturn == [raised |-> "pending", pair |-> <<>>, bond |-> <<>>]
NoAlt == [kind |-> "none", cutoff_global |-> 0, p |-> <<>>, ret |-> NoReturn]
NoLook == [called |-> FALSE, x |-> PyNone, ret |-> PyNone]
NoList == [kind |-> "None", v |-> <<>>]
\* The settings __init__ and start_plot leave behind.
NewConfig ==
  [title_name |-> "Display Complex", title_size |-> PyStr("12"), label_size |-> PyStr("10"),
   show_title |-> TRUE, show_axis |-> TRUE, show_grid |-> TRUE,
   title |-> "Full complex", axis_labels |-> FALSE, axis_off |-> FALSE, grid_off |-> FALSE]

Fresh ==
  /\ pc = "start"
  /\ ret = NoReturn
  /\ alt = NoAlt
  /\ ax = <<>>
  /\ color_q = <<>>
  /\ radii_q = <<>>
  /\ raised = "none"
  /\ looked = NoLook
  /\ bond_list = NoList
  /\ atoms_pair = <<>>
  /\ plotted = <<>>
  /\ segments = 0
  /\ calls = 0
  /\ texts = <<>>
  /\ legend = NoList
  /\ config = NewConfig
  /\ ncalls = 0
  /\ xyz_atoms = <<>>
  /\ xyz_coords = <<>>
  /\ line_i = 2
  /\ parse_raised = "none"

\* No file is read.
NoFile ==
  /\ lines = <<>>
  /\ num_atoms = 0

\* Arguments of find_bonds: lists of up to MaxAtoms entries whose lengths
\* differ by at most one, and two cutoffs.
Init ==
  /\ coord \in SeqsUpTo(Points, MaxAtoms)
  /\ atom \in {a \in SeqsUpTo(Symbols, MaxAtoms) : Len(a) - Len(coord) \in {-1, 0, 1}}
  /\ cutoff_global \in Cutoffs
  /\ cutoff_hydrogen \in Cutoffs
  /\ Fresh
  /\ NoFile

\* The caller runs find_bonds on the arguments.
FindBonds ==
  /\ pc = "start"
  /\ ret' = find_bonds(atom, coord, cutoff_global, cutoff_hydrogen)
  /\ pc' = "returned"
  /\ UNCHANGED <<atom, coord, cutoff_global, cutoff_hydrogen, alt, ax, color_q, radii_q, raised, looked, sceneVars, parseVars>>

\* After a call that returned, a second call with another global cutoff,
\* everything else the same.
Recut ==
  /\ pc = "returned"
  /\ ret.raised = "none"
  /\ \E g \in Cutoffs :
       alt' = [kind |-> "cutoff", cutoff_global |-> g, p |-> <<>>,
               ret |-> find_bonds(atom, coord, g, cutoff_hydrogen)]
  /\ pc' = "compared"
  /\ UNCHANGED <<atom, coord, cutoff_global, cutoff_hydrogen, ret, ax, color_q, radii_q, raised, looked, sceneVars, parseVars>>

\* A second call on the same atoms relabelled by a permutation of the indices.
Relabel ==
  /\ pc = "returned"
  /\ Len(atom) = Len(coord)
  /\ \E p \in IndexPermutations(Len(coord)) :
       alt' = [kind |-> "perm", cutoff_global |-> cutoff_global, p |-> p,
               ret |-> find_bonds(Relabelled(atom, p), Relabelled(coord, p),
                                  cutoff_global, cutoff_hydrogen)]
  /\ pc' = "compared"
  /\ UNCHANGED <<atom, coord, cutoff_global, cutoff_hydrogen, ret, ax, color_q, radii_q, raised, looked, sceneVars, parseVars>>

Next == FindBonds \/ Recut \/ Relabel

Spec == Init /\ [][Next]_vars

\* A DrawComplex over symbols that include the placeholder "0" and a symbol
\* the table does not hold.
InitDraw ==
  /\ atom \in SeqsUpTo(DrawSymbols, MaxAtoms)
  /\ coord \in {c \in SeqsUpTo({<<0, 0, 0>>}, MaxAtoms) : Len(c) - Len(atom) \in {-1, 0, 1}}
  /\ cutoff_global \in Cutoffs
  /\ cutoff_hydrogen \in Cutoffs
  /\ Fresh
  /\ NoFile

add_atom ==
  /\ pc = "start"
  /\ LET done == add_atom_loop(atom, coord, 0,
                   [ax |-> ax, color_q |-> color_q, radii_q |-> radii_q, raised |-> "none"])
     IN  /\ ax' = done.ax
         /\ color_q' = done.color_q
         /\ radii_q' = done.radii_q
         /\ raised' = done.raised
  /\ pc' = "atoms"
  /\ UNCHANGED <<atom, coord, cutoff_global, cutoff_hydrogen, ret, alt, looked, sceneVars, parseVars>>

NextDraw == add_atom

SpecDraw == InitDraw /\ [][NextDraw]_vars

\* The complex of the find_bonds docstring, in millionths of an Angstrom.
ExampleAtom == <<"Fe", "N", "N", "N", "O", "O", "O">>
ExampleCoord ==
  << <<2298354, 5161785, 7971898>>,
     <<1885657, 4804777, 6183726>>,
     <<1747515, 6960963, 7932784>>,
     <<4094380, 5807257, 7588689>>,
     <<539005, 4482809, 8460004>>,
     <<2812425, 3266553, 8131637>>,
     <<2886404, 5392925, 9848966>> >>
\* The default cutoffs 2.0 and 1.2 in the same unit.
DefaultCutoffGlobal == 2000000
DefaultCutoffHydrogen == 1200000
\* The symbols drawn over the example geometry: the docstring's, the same
\* with hydrogen for oxygen, and a list one symbol short.
ExampleAtoms ==
  {ExampleAtom, <<"Fe", "N", "N", "N", "H", "H", "H">>, SubSeq(ExampleAtom, 1, 6)}
ExampleCutoffs == {1000000, 1900000, DefaultCutoffGlobal, 2700000}
ConfigArgs ==
  {[show_title |-> TRUE, show_axis |-> TRUE, show_grid |-> TRUE,
    title_name |-> PyNone, title_size |-> PyNone, label_size |-> PyNone],
   [show_title |-> FALSE, show_axis |-> FALSE, show_grid |-> FALSE,
    title_name |-> PyNone, title_size |-> PyStr("14"), label_size |-> PyNone],
   [show_title |-> TRUE, show_axis |-> TRUE, show_grid |-> FALSE,
    title_name |-> PyStr("Complex"), title_size |-> PyNone, label_size |-> PyStr("8")]}

\* DrawComplex(atom, coord, cutoff_global, cutoff_hydrogen) over the example.
InitComplex ==
  /\ atom \in ExampleAtoms
  /\ coord = ExampleCoord
  /\ cutoff_global \in ExampleCutoffs
  /\ cutoff_hydrogen \in {DefaultCutoffHydrogen, DefaultCutoffGlobal}
  /\ Fresh
  /\ NoFile

\* Variant: the call also reverses the coordinate list it was given.
add_bond_reversing ==
  /\ ncalls < MaxCalls
  /\ ncalls' = ncalls + 1
  /\ LET r == find_bonds(atom, coord, cutoff_global, cutoff_hydrogen)
         pairs == add_bond_pairs(r.bond, 1, atoms_pair)
     IN  /\ ret' = r
         /\ raised' = r.raised
         /\ IF r.raised # "none"
            THEN UNCHANGED <<bond_list, atoms_pair, plotted, segments, calls>>
            ELSE /\ bond_list' = [kind |-> "list", v |-> r.bond]
                 /\ atoms_pair' = pairs
                 /\ plotted' = add_bond_plot(pairs, 1, plotted)
                 /\ segments' = Len(pairs)
                 /\ calls' = calls + 1
  /\ coord' = [k \in 1..Len(coord) |-> coord[Len(coord) + 1 - k]]
  /\ UNCHANGED <<atom, cutoff_global, cutoff_hydrogen, pc, alt, ax, color_q, radii_q, looked,
                 texts, legend, config, parseVars>>

\* DrawComplex.add_bond: bond_list is assigned the second list find_bonds
\* returns, atoms_pair is extended, and every entry of atoms_pair is plotted.
\* ret logs what the find_bonds call returned.
add_bond ==
  /\ ncalls < MaxCalls
  /\ ncalls' = ncalls + 1
  /\ LET r == find_bonds(atom, coord, cutoff_global, cutoff_hydrogen)
         pairs == add_bond_pairs(r.bond, 1, atoms_pair)
     IN  /\ ret' = r
         /\ raised' = r.raised
         /\ IF r.raised # "none"
            THEN UNCHANGED <<bond_list, atoms_pair, plotted, segments, calls>>
            ELSE /\ bond_list' = [kind |-> "list", v |-> r.bond]
                 /\ atoms_pair' = pairs
                 /\ plotted' = add_bond_plot(pairs, 1, plotted)
                 /\ segments' = Len(pairs)
                 /\ calls' = calls + 1
  /\ UNCHANGED <<atom, coord, cutoff_global, cutoff_hydrogen, pc, alt, ax, color_q, radii_q, looked,
                 texts, legend, config, parseVars>>

\* DrawComplex.add_symbol.
add_symbol ==
  /\ ncalls < MaxCalls
  /\ ncalls' = ncalls + 1
  /\ LET done == add_symbol_loop(atom, coord, 0, [texts |-> texts, raised |-> "none"])
     IN  /\ texts' = done.texts
         /\ raised' = done.raised
  /\ UNCHANGED <<atom, coord, cutoff_global, cutoff_hydrogen, pc, ret, alt, ax, color_q, radii_q, looked,
                 bond_list, atoms_pair, plotted, segments, calls, legend, config, parseVars>>

\* DrawComplex.add_legend.
add_legend ==
  /\ ncalls < MaxCalls
  /\ ncalls' = ncalls + 1
  /\ legend' = [kind |-> "list", v |-> legend_labels(ax, 1, <<>>)]
  /\ raised' = "none"
  /\ UNCHANGED <<atom, coord, cutoff_global, cutoff_hydrogen, pc, ret, alt, ax, color_q, radii_q, looked,
                 bond_list, atoms_pair, plotted, segments, calls, texts, config, parseVars>>

\* DrawComplex.config_plot.
config_plot ==
  /\ ncalls < MaxCalls
  /\ ncalls' = ncalls + 1
  /\ \E a \in ConfigArgs : config' = config_plot_result(config, a)
  /\ raised' = "none"
  /\ UNCHANGED <<atom, coord, cutoff_global, cutoff_hydrogen, pc, ret, alt, ax, color_q, radii_q, looked,
                 bond_list, atoms_pair, plotted, segments, calls, texts, legend, parseVars>>

NextComplex == add_atom \/ add_symbol \/ add_bond \/ add_legend \/ config_plot

SpecComplex == InitComplex /\ [][NextComplex]_vars

\* main after int(lines[0]): a file body of sample lines and a header count.
InitParse ==
  /\ atom = <<>>
  /\ coord = <<>>
  /\ cutoff_global = 1
  /\ cutoff_hydrogen = 1
  /\ Fresh
  /\ lines \in SeqsUpTo(SampleLines, MaxLines)
  /\ num_atoms \in 0..MaxLines

\* One pass of the loop "for i in range(2, 2 + num_atoms)": lines[i] raises
\* past the end of the file; a line without a match is skipped; on a match
\* the symbol is appended, then the three tokens are converted, then the
\* coordinates are appended.
ParseLine ==
  /\ parse_raised = "none"
  /\ line_i < 2 + num_atoms
  /\ IF line_i - 1 > Len(lines)
     THEN /\ parse_raised' = "IndexError"
          /\ UNCHANGED <<line_i, xyz_atoms, xyz_coords>>
     ELSE LET m == search(lines[line_i - 1])
              xyz == [k \in 1..3 |-> replace_star_caret(lower_d_to_e(m.groups[k + 1]))]
              vals == [k \in 1..3 |-> py_float(xyz[k])]
          IN  IF ~ m.ok
              THEN /\ line_i' = line_i + 1
                   /\ UNCHANGED <<xyz_atoms, xyz_coords, parse_raised>>
              ELSE /\ xyz_atoms' = Append(xyz_atoms, m.groups[1])
                   /\ IF \A k \in 1..3 : vals[k].ok
                      THEN /\ xyz_coords' = Append(xyz_coords, [k \in 1..3 |-> vals[k].v])
                           /\ line_i' = line_i + 1
                           /\ UNCHANGED parse_raised
                      ELSE /\ parse_raised' = "ValueError"
                           /\ UNCHANGED <<xyz_coords, line_i>>
  /\ UNCHANGED <<atom, coord, cutoff_global, cutoff_hydrogen, pc, ret, alt, ax, color_q, radii_q, raised,
                 looked, sceneVars, lines, num_atoms>>

NextParse == ParseLine

SpecParse == InitParse /\ [][NextParse]_vars

\* Direct calls of check_atom with a string or an int.
InitLookup ==
  /\ atom = <<>>
  /\ coord = <<>>
  /\ cutoff_global \in Cutoffs
  /\ cutoff_hydrogen \in Cutoffs
  /\ Fresh
  /\ NoFile

CheckAtom ==
  /\ \E x \in {PyStr(t) : t \in LookupStrings} \cup {PyInt(n) : n \in (0 - MaxNumber)..MaxNumber} :
       looked' = [called |-> TRUE, x |-> x, ret |-> check_atom(x)]
  /\ UNCHANGED <<atom, coord, cutoff_global, cutoff_hydrogen, pc, ret, alt, ax, color_q, radii_q, raised, sceneVars, parseVars>>

NextLookup == CheckAtom

SpecLookup == InitLookup /\ [][NextLookup]_vars

\* ------------------------------------------------------------- claims
Returned == pc # "start" /\ ret.raised = "none"
Bonded(r, i, j) == \E k \in 1..Len(r.bond) : r.bond[k].ij = <<i, j>>
\* Squared Euclidean distance of atoms i and j (Python indices).
D2(i, j) ==
  LET d(k) == coord[i + 1][k] - coord[j + 1][k]
  IN  d(1) * d(1) + d(2) * d(2) + d(3) * d(3)
Within(i, j, cutoff) == D2(i, j) <= cutoff * cutoff
\* The index pairs i < j < len(coord) whose symbols both exist.
IndexPairs ==
  {q \in (0..(Len(coord) - 1)) \X (0..(Len(coord) - 1)) : q[1] < q[2] /\ q[2] < Len(atom)}
Hydrogen(q) == atom[q[1] + 1] = "H" \/ atom[q[2] + 1] = "H"
LexLess(a, b) == a[1] < b[1] \/ (a[1] = b[1] /\ a[2] < b[2])
RECURSIVE IsSubseq(_, _)
IsSubseq(u, v) ==
  IF u = <<>> THEN TRUE
  ELSE IF v = <<>> THEN FALSE
  ELSE IF Head(u) = Head(v) THEN IsSubseq(Tail(u), Tail(v))
  ELSE IsSubseq(u, Tail(v))

\* C1: when find_bonds returns, a pair i < j with neither symbol equal to "H"
\* ("h" is not "H") is in the bond list exactly when its distance is at most
\* cutoff_global, whatever cutoff_hydrogen is.
C1_NonHydrogenGlobalCutoff ==
  Returned =>
    \A q \in IndexPairs :
      ~ Hydrogen(q) => (Bonded(ret, q[1], q[2]) <=> Within(q[1], q[2], cutoff_global))

\* A pair with a lowercase "h" at exactly the global cutoff and beyond the
\* hydrogen cutoff has been kept.
C1_Witness ==
  /\ Returned
  /\ \E q \in IndexPairs :
       /\ ~ Hydrogen(q)
       /\ atom[q[1] + 1] = "h"
       /\ D2(q[1], q[2]) = cutoff_global * cutoff_global
       /\ ~ Within(q[1], q[2], cutoff_hydrogen)
       /\ Bonded(ret, q[1], q[2])

\* C2: when find_bonds returns, a pair i < j with a symbol equal to "H" is in
\* the bond list exactly when its distance is at most cutoff_global and at
\* most cutoff_hydrogen.
C2_HydrogenBothCutoffs ==
  Returned =>
    \A q \in IndexPairs :
      Hydrogen(q) =>
        (Bonded(ret, q[1], q[2]) <=>
           (Within(q[1], q[2], cutoff_global) /\ Within(q[1], q[2], cutoff_hydrogen)))

\* A hydrogen pair within the hydrogen cutoff but beyond the global one has
\* been dropped.
C2_Witness ==
  /\ Returned
  /\ \E q \in IndexPairs :
       /\ Hydrogen(q)
       /\ Within(q[1], q[2], cutoff_hydrogen)
       /\ ~ Within(q[1], q[2], cutoff_global)
       /\ ~ Bonded(ret, q[1], q[2])

\* C3: the returned bonds stand in generation order: an earlier entry is the
\* lexicographically smaller index pair.
C3_GenerationOrder ==
  Returned =>
    \A k1, k2 \in 1..Len(ret.bond) :
      k1 < k2 => LexLess(ret.bond[k1].ij, ret.bond[k2].ij)

\* Two pairs survive around one that was screened out.
C3_Witness ==
  /\ Returned
  /\ Len(coord) = 3
  /\ Len(ret.bond) = 2
  /\ ret.bond[1].ij = <<0, 1>>
  /\ ret.bond[2].ij = <<1, 2>>

\* C4: with N = len(coord), every returned entry is the candidate of one pair
\* 0 <= i < j <= N - 1 (its symbols and its positions), no pair occurs twice,
\* and for N < 2 the call returns the empty list without an error.
C4_SubsequenceOfCandidates ==
  pc # "start" =>
    /\ Len(coord) < 2 => (ret.raised = "none" /\ ret.bond = <<>> /\ ret.pair = <<>>)
    /\ ret.raised = "none" =>
         /\ Len(ret.pair) = Len(ret.bond)
         /\ \A k \in 1..Len(ret.bond) :
              LET i == ret.bond[k].ij[1]
                  j == ret.bond[k].ij[2]
              IN  /\ 0 <= i /\ i < j /\ j <= Len(coord) - 1
                  /\ ret.bond[k].a = coord[i + 1]
                  /\ ret.bond[k].b = coord[j + 1]
                  /\ ret.pair[k] = <<atom[i + 1], atom[j + 1]>>
         /\ \A k1, k2 \in 1..Len(ret.bond) :
              ret.bond[k1].ij = ret.bond[k2].ij => k1 = k2

\* A call on three atoms has returned some but not all of the three pairs.
C4_Witness ==
  /\ Returned
  /\ Len(coord) = 3
  /\ Len(ret.bond) \in {1, 2}

\* C5: for the same atom, coord and cutoff_hydrogen, the result under the
\* smaller global cutoff is a subsequence of the result under the larger one.
C5_MonotoneInGlobalCutoff ==
  (pc = "compared" /\ alt.kind = "cutoff" /\ ret.raised = "none" /\ alt.ret.raised = "none") =>
    /\ cutoff_global <= alt.cutoff_global =>
         (IsSubseq(ret.bond, alt.ret.bond) /\ IsSubseq(ret.pair, alt.ret.pair))
    /\ alt.cutoff_global <= cutoff_global =>
         (IsSubseq(alt.ret.bond, ret.bond) /\ IsSubseq(alt.ret.pair, ret.pair))

\* Raising the global cutoff has added a pair to a non-empty result.
C5_Witness ==
  /\ pc = "compared"
  /\ alt.kind = "cutoff"
  /\ cutoff_global < alt.cutoff_global
  /\ Len(ret.bond) > 0
  /\ Len(alt.ret.bond) > Len(ret.bond)

\* C6: check_atom with a string that is not in the table fails with an
\* error instead of returning an empty value.
C6_UnknownSymbolRaises ==
  (looked.called /\ looked.x.kind = "str" /\ \A k \in 1..Len(atoms) : atoms[k] # looked.x.s) =>
    looked.ret.kind \notin {"None", "int", "str"}

\* C7: check_atom with an int n outside 1 .. len(atoms) - 1 fails with an
\* index error.
C7_NumberOutOfRangeRaises ==
  (looked.called /\ looked.x.kind = "int" /\ (looked.x.n < 1 \/ looked.x.n >= Len(atoms))) =>
    looked.ret.kind = "IndexError"

\* C8: when len(atom) differs from len(coord), find_bonds raises rather than
\* return a bond list.
C8_LengthMismatchRejected ==
  (pc # "start" /\ Len(atom) # Len(coord)) => ret.raised \notin {"none", "pending"}

\* C9: add_atom never gives 0 to check_color or to check_radii.
C9_NeverQueriesIndexZero ==
  /\ \A k \in 1..Len(color_q) : color_q[k] # PyInt(0)
  /\ \A k \in 1..Len(radii_q) : radii_q[k] # PyInt(0)

\* C10: for a permutation p applied to atom and coord alike, the pair {i, j}
\* is bonded in the original exactly when {p(i), p(j)} is bonded in the
\* relabelled input.
C10_RelabellingSymmetry ==
  (pc = "compared" /\ alt.kind = "perm" /\ ret.raised = "none") =>
    /\ alt.ret.raised = "none"
    /\ Len(alt.ret.bond) = Len(ret.bond)
    /\ \A q \in IndexPairs :
         LET pi == alt.p[q[1] + 1] - 1
             pj == alt.p[q[2] + 1] - 1
         IN  Bonded(ret, q[1], q[2]) <=>
               Bonded(alt.ret, IF pi < pj THEN pi ELSE pj, IF pi < pj THEN pj ELSE pi)

\* A relabelling that swaps the ends of a kept hydrogen pair, next to a pair
\* that is not bonded.
C10_Witness ==
  /\ pc = "compared"
  /\ alt.kind = "perm"
  /\ \E q \in IndexPairs :
       /\ atom[q[1] + 1] # "H"
       /\ atom[q[2] + 1] = "H"
       /\ alt.p[q[1] + 1] > alt.p[q[2] + 1]
       /\ Bonded(ret, q[1], q[2])
  /\ \E q \in IndexPairs : ~ Bonded(ret, q[1], q[2])

\* C11: for the docstring complex under the default cutoffs, find_bonds
\* returns exactly the six pairs (0,1) .. (0,6) in that order, labelled
\* Fe-N three times and then Fe-O three times, each from the Fe position to
\* the ligand position; no pair of two ligands is returned.
C11_ExampleSixBonds ==
  (/\ atom = ExampleAtom
   /\ coord = ExampleCoord
   /\ cutoff_global = DefaultCutoffGlobal
   /\ cutoff_hydrogen = DefaultCutoffHydrogen
   /\ ret # NoReturn) =>
    /\ ret.raised = "none"
    /\ [k \in 1..Len(ret.bond) |-> ret.bond[k].ij] =
         <<(<<0, 1>>), (<<0, 2>>), (<<0, 3>>), (<<0, 4>>), (<<0, 5>>), (<<0, 6>>)>>
    /\ ret.pair = <<(<<"Fe", "N">>), (<<"Fe", "N">>), (<<"Fe", "N">>),
                    (<<"Fe", "O">>), (<<"Fe", "O">>), (<<"Fe", "O">>)>>
    /\ \A k \in 1..Len(ret.bond) :
         ret.bond[k].a = ExampleCoord[1] /\ ret.bond[k].b = ExampleCoord[k + 1]

\* find_bonds has returned for the docstring complex under the defaults.
C11_Witness ==
  /\ atom = ExampleAtom
  /\ coord = ExampleCoord
  /\ cutoff_global = DefaultCutoffGlobal
  /\ cutoff_hydrogen = DefaultCutoffHydrogen
  /\ ret.raised = "none"
  /\ Len(ret.bond) = 6

\* C12: in the parse loop the symbols and the coordinates stay aligned: a
\* line either adds one entry to both lists or changes neither, no line of
\* the file makes the conversion fail, and the lists never grow beyond
\* num_atoms entries.
C12_ParsedListsAligned ==
  /\ Len(xyz_atoms) = Len(xyz_coords)
  /\ Len(xyz_atoms) <= num_atoms
  /\ parse_raised # "ValueError"

C14_AtomsPairAccumulates ==
  calls >= 1 =>
    LET n == Len(bond_list.v)
    IN  /\ bond_list.kind = "list"
        /\ bond_list.v = ret.bond
        /\ Len(atoms_pair) = calls * n
        /\ segments = calls * n
        /\ 2 * Len(plotted) = n * calls * (calls + 1)
        /\ \A k \in 1..Len(atoms_pair) :
             atoms_pair[k] = <<bond_list.v[((k - 1) % n) + 1].a, bond_list.v[((k - 1) % n) + 1].b>>
        /\ calls = 1 => Len(atoms_pair) = n

\* Two add_bond calls with an add_symbol call in between have left twelve
\* entries for six bonds.
C14_Witness ==
  /\ calls = 2
  /\ texts # <<>>
  /\ Len(bond_list.v) = 6
  /\ Len(atoms_pair) = 12
  /\ segments = 12

====
